---------------------------- MODULE Spec2Model ----------------------------
(***************************************************************************)
(* Model of homeassistant/components/notify/windows.py: the WNS            *)
(* notification service (token cache, send_message) and the push           *)
(* registration view (POST / DELETE on the shared registrations dict,      *)
(* saved with save_json and rolled back when the save fails).              *)
(*                                                                         *)
(* JSON values are written as text tokens: a JSON string is the string     *)
(* itself, the JSON integers are "0", "60", "-1", JSON null is "null".     *)
(* An optional value (Python None or a value) is a set with at most one    *)
(* element: {} is None.  A dict is a function whose domain is its keys.    *)
(***************************************************************************)
EXTENDS Integers, Sequences, FiniteSets, TLC

VARIABLES
    registrations,   \* the in-memory dict shared by the view and the service
    file,            \* the content of windows_push_registrations.conf
    handler,         \* per handler slot: the coroutine's position and locals
    resp,            \* per handler slot: the response of the finished request
    hist,            \* per handler slot: what an observer of the request recorded
    nreq,            \* number of requests received so far
    acked,           \* records of the POSTs that were answered with success
    unacked,         \* keys of the DELETEs that were answered with success
    loaded,          \* the registry as get_service loaded it
    last,            \* the request that was answered last
    clock,           \* datetime.now(), in minutes since get_service
    access_token,    \* the service's cached token and its expiry
    sender,          \* the position and locals of send_message / get_token
    tokhist,         \* what an observer of the last get_token call recorded
    outbox,          \* the notification POSTs of the current send_message call
    nsend            \* number of send_message calls so far

vars == <<registrations, file, handler, resp, hist, nreq, acked, unacked,
          loaded, last, clock, access_token, sender, tokhist, outbox, nsend>>

viewVars == <<registrations, file, handler, resp, hist, nreq, acked, unacked,
              loaded, last>>
sendVars == <<clock, access_token, sender, tokhist, outbox, nsend>>

---------------------------------------------------------------------------
(* Bounds *)

MaxRequests == 2
MaxSends == 2
MaxClock == 4

---------------------------------------------------------------------------
(* Constants of the program *)

ATTR_CHANNEL_ID == "id"
ATTR_CHANNEL == "channel"
ATTR_EXPIRY == "expiry"
ATTR_NAME == "name"

HTTP_OK == 200
HTTP_BAD_REQUEST == 400
HTTP_INTERNAL_SERVER_ERROR == 500

JNull == "null"

---------------------------------------------------------------------------
(* Python dict operations, as the handlers use them *)

EmptyDict == [k \in {} |-> ""]

\* d.get(k): None ({}) when the key is absent
DictGet(d, k) == IF k \in DOMAIN d THEN {d[k]} ELSE {}

\* d[k] = v
DictSet(d, k, v) == [x \in (DOMAIN d) \cup {k} |-> IF x = k THEN v ELSE d[x]]

\* d without key k (the dict after d.pop(k), k present)
DictPop(d, k) == [x \in (DOMAIN d) \ {k} |-> d[x]]

\* Python truth value of an optional string: None and "" are false
Truthy(opt) == opt # {} /\ opt # {""}

---------------------------------------------------------------------------
(* SUBSCRIPTION_SCHEMA *)

cv_string(v) == v # JNull
cv_url(v) == v \in {"https://c1", "https://c2"}
cv_positive_int(v) == v \in {"0", "60"}

SUBSCRIPTION_SCHEMA_ChannelOptional(obj) ==
    /\ ATTR_CHANNEL_ID \in DOMAIN obj
    /\ DOMAIN obj \subseteq {ATTR_CHANNEL_ID, ATTR_CHANNEL, ATTR_EXPIRY, ATTR_NAME}
    /\ cv_string(obj[ATTR_CHANNEL_ID])
    /\ (ATTR_CHANNEL \in DOMAIN obj => cv_url(obj[ATTR_CHANNEL]))
    /\ (ATTR_EXPIRY \in DOMAIN obj =>
            obj[ATTR_EXPIRY] = JNull \/ cv_positive_int(obj[ATTR_EXPIRY]))
    /\ (ATTR_NAME \in DOMAIN obj => cv_string(obj[ATTR_NAME]))

SUBSCRIPTION_SCHEMA(obj) ==
    /\ ATTR_CHANNEL_ID \in DOMAIN obj
    /\ ATTR_CHANNEL \in DOMAIN obj
    /\ DOMAIN obj \subseteq {ATTR_CHANNEL_ID, ATTR_CHANNEL, ATTR_EXPIRY, ATTR_NAME}
    /\ cv_string(obj[ATTR_CHANNEL_ID])
    /\ cv_url(obj[ATTR_CHANNEL])
    /\ (ATTR_EXPIRY \in DOMAIN obj =>
            obj[ATTR_EXPIRY] = JNull \/ cv_positive_int(obj[ATTR_EXPIRY]))
    /\ (ATTR_NAME \in DOMAIN obj => cv_string(obj[ATTR_NAME]))

---------------------------------------------------------------------------
(* Bounded inputs *)

Slots == {1, 2}
Ids == {"", "a"}

FullReg(id) == (ATTR_CHANNEL_ID :> id) @@ (ATTR_CHANNEL :> "https://c1")
               @@ (ATTR_EXPIRY :> "60") @@ (ATTR_NAME :> "pc")
MinReg(id) == (ATTR_CHANNEL_ID :> id) @@ (ATTR_CHANNEL :> "https://c2")

ValidObjects == {FullReg(id) : id \in Ids} \cup {MinReg(id) : id \in Ids}

InvalidObjects ==
    { (ATTR_CHANNEL_ID :> "a"),                                       \* no channel
      (ATTR_CHANNEL :> "https://c1"),                                 \* no id
      (ATTR_CHANNEL_ID :> "a") @@ (ATTR_CHANNEL :> "c1"),             \* not a URL
      MinReg("a") @@ (ATTR_EXPIRY :> "-1"),                           \* negative
      MinReg("a") @@ ("extra" :> "x") }                               \* extra key

\* A request body: json = FALSE when request.json() raises ValueError,
\* dict = FALSE when the JSON value is not an object (a list, a string, null)
Body(obj) == [json |-> TRUE, dict |-> TRUE, obj |-> obj]
NonDict == [json |-> TRUE, dict |-> FALSE, obj |-> EmptyDict]
Malformed == [json |-> FALSE, dict |-> FALSE, obj |-> EmptyDict]

PostBodies == {Body(o) : o \in ValidObjects \cup InvalidObjects} \cup {NonDict, Malformed}
DeleteBodies == {Body((ATTR_CHANNEL_ID :> id)) : id \in Ids}
                \cup {Body(EmptyDict), NonDict, Malformed}

\* The registries save_json of this component can have written: every entry
\* is a validated registration stored under its own id.
Registries ==
    UNION { [K -> ValidObjects] : K \in SUBSET Ids }
KeysMatchIds(regs) ==
    \A k \in DOMAIN regs : DictGet(regs[k], ATTR_CHANNEL_ID) = {k}
LoadableRegistries == { r \in Registries : KeysMatchIds(r) }

---------------------------------------------------------------------------
(* WindowsPushRegistrationView *)

IdleHandler ==
    [pc |-> "idle", method |-> "", channel_id |-> {}, data |-> EmptyDict,
     previous_registration |-> {}, found |-> {}, reg |-> {}]

NoResponse == [status |-> 0, message |-> ""]
NoHist == [body |-> Malformed, before |-> EmptyDict, saves |-> 0, saved |-> "none"]
NoRequest == [method |-> "", channel_id |-> {}, status |-> 0, message |-> ""]

\* self.json_message(message, status): the handler returns
Respond(s, h, status, message) ==
    /\ handler' = [handler EXCEPT ![s] = [h EXCEPT !.pc = "done"]]
    /\ resp' = [resp EXCEPT ![s] = [status |-> status, message |-> message]]

PostStore_Merge(regs, data) ==
    LET id == data[ATTR_CHANNEL_ID]
    IN  DictSet(regs, id, IF id \in DOMAIN regs THEN data @@ regs[id] ELSE data)

PostStore_KeyByChannel(regs, data) == DictSet(regs, data[ATTR_CHANNEL], data)

\* post, lines 188-191: remember the old entry and overwrite it
PostStore(regs, data) == DictSet(regs, data[ATTR_CHANNEL_ID], data)

PostRollback_AlwaysPop(regs, channel_id, previous_registration) ==
    DictPop(regs, channel_id)

PostRollback_Keep(regs, channel_id, previous_registration) == regs

PostRollback_Clear(regs, channel_id, previous_registration) ==
    IF previous_registration # {}
    THEN DictSet(regs, channel_id, CHOOSE r \in previous_registration : TRUE)
    ELSE EmptyDict

\* post, lines 200-204: put the old entry back, or pop the key
\* (the key is present here; the caller models the KeyError of pop)
PostRollback(regs, channel_id, previous_registration) ==
    IF previous_registration # {}
    THEN DictSet(regs, channel_id, CHOOSE r \in previous_registration : TRUE)
    ELSE DictPop(regs, channel_id)

DeleteScan_AnyKey(regs, channel_id) ==
    IF DOMAIN regs = {} THEN {{}} ELSE {{k} : k \in DOMAIN regs}

\* delete, lines 218-223: the keys of the entries whose embedded id matches;
\* the loop takes the first one in iteration order, None when there is none
DeleteScan(regs, channel_id) ==
    LET matches == {k \in DOMAIN regs : DictGet(regs[k], ATTR_CHANNEL_ID) = channel_id}
    IN  IF matches = {} THEN {{}} ELSE {{k} : k \in matches}

\* delete, line 225: "if not found"
NotFound(found) == ~Truthy(found)

DeleteRollback_Skip(regs, found, reg) == regs

\* delete, line 235: self.registrations[found] = reg
DeleteRollback(regs, found, reg) ==
    DictSet(regs, CHOOSE k \in found : TRUE, CHOOSE r \in reg : TRUE)

\* post up to its await of save_json (lines 175-197)
Post(s, body) ==
    /\ handler[s].pc = "idle"
    /\ nreq < MaxRequests
    /\ nreq' = nreq + 1
    /\ hist' = [hist EXCEPT ![s] = [NoHist EXCEPT !.body = body, !.before = registrations]]
    /\ LET h == [IdleHandler EXCEPT !.method = "POST"] IN
       IF ~body.json
       THEN /\ Respond(s, h, HTTP_BAD_REQUEST, "Invalid JSON")
            /\ UNCHANGED registrations
       ELSE IF ~(body.dict /\ SUBSCRIPTION_SCHEMA(body.obj))
       THEN /\ Respond(s, h, HTTP_BAD_REQUEST, "humanize_error")
            /\ UNCHANGED registrations
       ELSE LET data == body.obj
                channel_id == DictGet(data, ATTR_CHANNEL_ID)
            IN  /\ handler' = [handler EXCEPT ![s] =
                       [h EXCEPT !.pc = "saving", !.data = data,
                                 !.channel_id = channel_id,
                                 !.previous_registration =
                                     DictGet(registrations, data[ATTR_CHANNEL_ID])]]
                /\ registrations' = PostStore(registrations, data)
                /\ UNCHANGED resp
    /\ UNCHANGED <<file, acked, unacked, loaded, last>>
    /\ UNCHANGED sendVars

\* delete up to its await of save_json (lines 209-233)
Delete(s, body) ==
    /\ handler[s].pc = "idle"
    /\ nreq < MaxRequests
    /\ nreq' = nreq + 1
    /\ hist' = [hist EXCEPT ![s] = [NoHist EXCEPT !.body = body, !.before = registrations]]
    /\ LET h == [IdleHandler EXCEPT !.method = "DELETE"] IN
       IF ~body.json
       THEN /\ Respond(s, h, HTTP_BAD_REQUEST, "Invalid JSON")
            /\ UNCHANGED registrations
       ELSE IF ~body.dict
       THEN \* data.get raises AttributeError, which nothing catches
            /\ Respond(s, h, HTTP_INTERNAL_SERVER_ERROR, "AttributeError")
            /\ UNCHANGED registrations
       ELSE LET channel_id == DictGet(body.obj, ATTR_CHANNEL_ID) IN
            \E found \in DeleteScan(registrations, channel_id) :
                IF NotFound(found)
                THEN /\ Respond(s, [h EXCEPT !.channel_id = channel_id, !.found = found],
                                HTTP_OK, "Registration not found.")
                     /\ UNCHANGED registrations
                ELSE LET key == CHOOSE k \in found : TRUE IN
                     /\ handler' = [handler EXCEPT ![s] =
                            [h EXCEPT !.pc = "saving", !.channel_id = channel_id,
                                      !.found = found, !.reg = {registrations[key]}]]
                     /\ registrations' = DictPop(registrations, key)
                     /\ UNCHANGED resp
    /\ UNCHANGED <<file, acked, unacked, loaded, last>>
    /\ UNCHANGED sendVars

\* save_json(self.json_path, self.registrations) in the executor: it writes the
\* dict as it is when the job runs, or raises and leaves the file as it was
SaveJson(s) ==
    /\ handler[s].pc = "saving"
    /\ \E ok \in BOOLEAN :
          /\ file' = IF ok THEN registrations ELSE file
          /\ handler' = [handler EXCEPT ![s].pc = IF ok THEN "save_ok" ELSE "save_failed"]
          /\ hist' = [hist EXCEPT ![s].saves = @ + 1,
                                  ![s].saved = IF ok THEN "ok" ELSE "failed"]
    /\ UNCHANGED <<registrations, resp, nreq, acked, unacked, loaded, last>>
    /\ UNCHANGED sendVars

SaveReturned_Always(h) == TRUE

\* lines 196-200 and 231-234: the awaited save_json job returned, rather than
\* raised HomeAssistantError
SaveReturned(h) == h.pc = "save_ok"

\* post after the await (lines 198-207)
PostResume(s) ==
    /\ handler[s].method = "POST"
    /\ handler[s].pc \in {"save_ok", "save_failed"}
    /\ LET h == handler[s]
           id == CHOOSE k \in h.channel_id : TRUE
       IN  IF SaveReturned(h)
           THEN /\ Respond(s, h, HTTP_OK, "Push notification subscriber registered.")
                /\ acked' = acked \cup {h.data}
                /\ UNCHANGED registrations
           ELSE IF h.previous_registration = {} /\ id \notin DOMAIN registrations
           THEN \* self.registrations.pop(channel_id) raises KeyError
                /\ Respond(s, h, HTTP_INTERNAL_SERVER_ERROR, "KeyError")
                /\ UNCHANGED <<registrations, acked>>
           ELSE /\ registrations' = PostRollback(registrations, id, h.previous_registration)
                /\ Respond(s, h, HTTP_INTERNAL_SERVER_ERROR, "Error saving registration.")
                /\ UNCHANGED acked
    /\ UNCHANGED <<file, hist, nreq, unacked, loaded, last>>
    /\ UNCHANGED sendVars

\* delete after the await (lines 234-239)
DeleteResume(s) ==
    /\ handler[s].method = "DELETE"
    /\ handler[s].pc \in {"save_ok", "save_failed"}
    /\ LET h == handler[s] IN
       IF SaveReturned(h)
       THEN /\ Respond(s, h, HTTP_OK, "Push notification subscriber unregistered.")
            /\ unacked' = unacked \cup h.found
            /\ UNCHANGED registrations
       ELSE /\ registrations' = DeleteRollback(registrations, h.found, h.reg)
            /\ Respond(s, h, HTTP_INTERNAL_SERVER_ERROR, "Error saving registration.")
            /\ UNCHANGED unacked
    /\ UNCHANGED <<file, hist, nreq, acked, loaded, last>>
    /\ UNCHANGED sendVars

\* the response has been sent: the slot is free for the next request
Return(s) ==
    /\ handler[s].pc = "done"
    /\ last' = [method |-> handler[s].method, channel_id |-> handler[s].channel_id,
                status |-> resp[s].status, message |-> resp[s].message]
    /\ handler' = [handler EXCEPT ![s] = IdleHandler]
    /\ resp' = [resp EXCEPT ![s] = NoResponse]
    /\ hist' = [hist EXCEPT ![s] = NoHist]
    /\ UNCHANGED <<registrations, file, nreq, acked, unacked, loaded>>
    /\ UNCHANGED sendVars

---------------------------------------------------------------------------
(* WindowsNotificationService *)

\* timedelta(minutes=5); the clock, the expiry and the lifetimes the provider
\* returns (expires_in, in seconds in the response) are counted in minutes
RefreshWindow == 5

\* What the clock advances by between two steps, and what the identity
\* provider answers
Lifetimes == {0, 4, 5, 6}
Tokens == {"t1", "t2"}
UnknownId == "zz"
TargetLists == {<<>>, <<"a">>, <<UnknownId, "a">>, <<"a", "">>}

InitToken_FarExpiry == [token |-> {}, expiry |-> 10]

\* __init__, lines 82-85: no token, expiry = the time of construction
InitToken == [token |-> {}, expiry |-> 0]

IdleSender == [pc |-> "idle", targets |-> {}, pending |-> <<>>, token |-> {}, errors |-> 0]
NoTokHist ==
    [requested |-> FALSE, returned |-> FALSE, now |-> 0, cached |-> InitToken,
     expires_in |-> 0, returned_at |-> 0, failed |-> FALSE, issued |-> {}]

TokenExpired_Inclusive(expiry, now) == expiry <= now + RefreshWindow

\* get_token, line 147: the cached token expires within the next 5 minutes
TokenExpired(expiry, now) == expiry < now + RefreshWindow

NewExpiry_FromCheck(now, stale, expires_in) == stale + expires_in

\* get_token, lines 156-159: datetime.now() + timedelta(seconds=expires_in),
\* with now read after the response; stale is the time of the check
NewExpiry(now, stale, expires_in) == now + expires_in

\* a minute passes, between two calls or while the token request is under way
\* (a minute passing later in a call changes nothing the call reads)
Tick ==
    /\ sender.pc \in {"idle", "token_request"}
    /\ clock < MaxClock
    /\ clock' = clock + 1
    /\ UNCHANGED <<access_token, sender, tokhist, outbox, nsend>>
    /\ UNCHANGED viewVars

\* send_message is called and calls get_token (lines 87-91, 144-154): the
\* cached token is returned, or the token request is posted
SendMessage(targets) ==
    /\ sender.pc = "idle"
    /\ nsend < MaxSends
    /\ nsend' = nsend + 1
    /\ outbox' = <<>>
    /\ LET th == [NoTokHist EXCEPT !.now = clock, !.cached = access_token,
                                   !.issued = tokhist.issued] IN
       IF TokenExpired(access_token.expiry, clock)
       THEN /\ sender' = [IdleSender EXCEPT !.pc = "token_request", !.targets = targets]
            /\ tokhist' = [th EXCEPT !.requested = TRUE]
       ELSE /\ sender' = [IdleSender EXCEPT !.pc = "got_token", !.targets = targets,
                                            !.token = access_token.token]
            /\ tokhist' = [th EXCEPT !.returned = TRUE, !.returned_at = clock]
    /\ UNCHANGED <<clock, access_token>>
    /\ UNCHANGED viewVars

\* the token request returns a token and its lifetime (lines 154-161)
TokenResponse(token, expires_in) ==
    /\ sender.pc = "token_request"
    /\ access_token' = [token |-> {token},
                        expiry |-> NewExpiry(clock, tokhist.now, expires_in)]
    /\ sender' = [sender EXCEPT !.pc = "got_token", !.token = {token}]
    /\ tokhist' = [tokhist EXCEPT !.returned = TRUE, !.returned_at = clock,
                                  !.expires_in = expires_in,
                                  !.issued = @ \cup {token}]
    /\ UNCHANGED <<clock, outbox, nsend>>
    /\ UNCHANGED viewVars

TokenFailure_Swallow ==
    /\ sender.pc = "token_request"
    /\ sender' = [sender EXCEPT !.pc = "got_token", !.token = access_token.token]
    /\ tokhist' = [tokhist EXCEPT !.failed = TRUE]
    /\ UNCHANGED <<clock, access_token, outbox, nsend>>
    /\ UNCHANGED viewVars

\* the token request raises, or its answer is not JSON or lacks 'expires_in'
\* or 'access_token' (lines 154-158): the exception leaves send_message
TokenFailure ==
    /\ sender.pc = "token_request"
    /\ sender' = [sender EXCEPT !.pc = "raised"]
    /\ tokhist' = [tokhist EXCEPT !.failed = TRUE]
    /\ UNCHANGED <<clock, access_token, outbox, nsend>>
    /\ UNCHANGED viewVars

\* the orders in which a dict's keys can be listed
KeyLists(d) ==
    {q \in UNION {[1..n -> DOMAIN d] : n \in {Cardinality(DOMAIN d)}} :
        \A i, j \in DOMAIN q : i # j => q[i] # q[j]}

NoTargets_NoneOnly(targets) == targets = {}

\* line 131: "if not targets", true of None and of an empty list
NoTargets(targets) == targets = {} \/ targets = {<<>>}

AfterUnknown_Break(pending) == <<>>

\* lines 136-139: an unknown target is logged and the loop continues
AfterUnknown(pending) == Tail(pending)

\* lines 130-134: "if not targets" takes the registry's keys
ResolveTargets ==
    /\ sender.pc = "got_token"
    /\ \E keys \in KeyLists(registrations) :
          LET list == IF NoTargets(sender.targets) THEN keys
                      ELSE CHOOSE t \in sender.targets : TRUE
          IN  sender' = [sender EXCEPT !.pc = "fanout", !.pending = list]
    /\ UNCHANGED <<clock, access_token, tokhist, outbox, nsend>>
    /\ UNCHANGED viewVars

\* one round of the loop of lines 134-142, or its end
PostToTarget ==
    /\ sender.pc = "fanout"
    /\ IF sender.pending = <<>>
       THEN /\ sender' = [sender EXCEPT !.pc = "done"]
            /\ UNCHANGED outbox
       ELSE LET target == Head(sender.pending)
                target_channel == DictGet(registrations, target)
            IN  IF target_channel = {}
                THEN /\ sender' = [sender EXCEPT !.pending = AfterUnknown(@),
                                                 !.errors = @ + 1]
                     /\ UNCHANGED outbox
                ELSE /\ sender' = [sender EXCEPT !.pending = Tail(@)]
                     /\ outbox' = Append(outbox,
                            [target |-> target,
                             channel |-> (CHOOSE r \in target_channel : TRUE)[ATTR_CHANNEL],
                             token |-> sender.token])
    /\ UNCHANGED <<clock, access_token, tokhist, nsend>>
    /\ UNCHANGED viewVars

\* send_message has returned or raised
SendReturn ==
    /\ sender.pc \in {"done", "raised"}
    /\ sender' = IdleSender
    /\ UNCHANGED <<clock, access_token, tokhist, outbox, nsend>>
    /\ UNCHANGED viewVars

---------------------------------------------------------------------------
(* get_service and the specifications *)

Init ==
    /\ loaded \in LoadableRegistries
    /\ registrations = loaded
    /\ file = loaded
    /\ handler = [s \in Slots |-> IdleHandler]
    /\ resp = [s \in Slots |-> NoResponse]
    /\ hist = [s \in Slots |-> NoHist]
    /\ nreq = 0
    /\ acked = {}
    /\ unacked = {}
    /\ last = NoRequest
    /\ clock = 0
    /\ access_token = InitToken
    /\ sender = IdleSender
    /\ tokhist = NoTokHist
    /\ outbox = <<>>
    /\ nsend = 0

\* Requests are handled as aiohttp runs them: handlers interleave at their awaits
Next ==
    \E s \in Slots :
        \/ \E body \in PostBodies : Post(s, body)
        \/ \E body \in DeleteBodies : Delete(s, body)
        \/ SaveJson(s)
        \/ PostResume(s)
        \/ DeleteResume(s)
        \/ Return(s)

Spec == Init /\ [][Next]_vars

\* Requests handled one at a time: one handler slot
NextSeq ==
    \/ \E body \in PostBodies : Post(1, body)
    \/ \E body \in DeleteBodies : Delete(1, body)
    \/ SaveJson(1)
    \/ PostResume(1)
    \/ DeleteResume(1)
    \/ Return(1)

SpecSeq == Init /\ [][NextSeq]_vars

\* The notification service alone, on the registry as loaded
NextSend ==
    \/ Tick
    \/ \E targets \in {{}} \cup {{t} : t \in TargetLists} : SendMessage(targets)
    \/ \E token \in Tokens, expires_in \in Lifetimes : TokenResponse(token, expires_in)
    \/ TokenFailure
    \/ ResolveTargets
    \/ PostToTarget
    \/ SendReturn

SpecSend == Init /\ [][NextSend]_vars

---------------------------------------------------------------------------
(* Properties of the registration view, requests handled one at a time *)

Done(s, method) == handler[s].pc = "done" /\ handler[s].method = method
ValidPost(s) == hist[s].body.dict /\ hist[s].body.obj \in ValidObjects
InvalidPost(s) == ~hist[s].body.dict \/ hist[s].body.obj \in InvalidObjects
PostId(s) == hist[s].body.obj[ATTR_CHANNEL_ID]
ServerError(s) == resp[s].status = 500
Success(s, message) == resp[s].status = 200 /\ resp[s].message = message

\* the id a DELETE body asks for (None when the body has none) and the keys
\* of the entries that carried it when the request came in
DeleteId(s) == DictGet(hist[s].body.obj, ATTR_CHANNEL_ID)
MatchedBefore(s) ==
    {k \in DOMAIN hist[s].before :
        DictGet(hist[s].before[k], ATTR_CHANNEL_ID) = DeleteId(s)}

\* C1: when the save of a POST with a valid payload fails, the registry at the
\* response equals the registry before the POST and the response is a 500.
C1_PostRollback ==
    \A s \in Slots :
        (Done(s, "POST") /\ ValidPost(s) /\ hist[s].saved = "failed")
            => /\ registrations = hist[s].before
               /\ ServerError(s)

\* C1 witness: a POST over an existing, different record whose save failed has
\* responded with a 500
C1_Witness ==
    \E s \in Slots :
        /\ Done(s, "POST") /\ ValidPost(s) /\ hist[s].saved = "failed"
        /\ PostId(s) \in DOMAIN hist[s].before
        /\ hist[s].before[PostId(s)] # hist[s].body.obj
        /\ ServerError(s)

\* C2: when the save of a DELETE that matched an entry fails, the entry is back
\* under its key with its fields and the response is a 500.
C2_DeleteRollback ==
    \A s \in Slots :
        (Done(s, "DELETE") /\ hist[s].body.dict /\ hist[s].saved = "failed")
            => /\ MatchedBefore(s) # {}
               /\ \A k \in MatchedBefore(s) :
                      k \in DOMAIN registrations /\ registrations[k] = hist[s].before[k]
               /\ registrations = hist[s].before
               /\ ServerError(s)

\* C2 witness: a DELETE of a stored id whose save failed has responded
C2_Witness ==
    \E s \in Slots :
        /\ Done(s, "DELETE") /\ hist[s].saved = "failed"
        /\ MatchedBefore(s) # {}
        /\ ServerError(s)

\* C4: after a POST with valid payload p whose save succeeded, the entry at
\* p.id is exactly p, whatever was stored there before, and the response is 200.
C4_PostReplaces ==
    \A s \in Slots :
        (Done(s, "POST") /\ ValidPost(s) /\ hist[s].saved = "ok")
            => /\ PostId(s) \in DOMAIN registrations
               /\ registrations[PostId(s)] = hist[s].body.obj
               /\ DOMAIN registrations[PostId(s)] = DOMAIN hist[s].body.obj
               /\ resp[s].status = 200

\* C4 witness: a record with name and expiry was re-POSTed without them
C4_Witness ==
    \E s \in Slots :
        /\ Done(s, "POST") /\ hist[s].saved = "ok" /\ resp[s].status = 200
        /\ PostId(s) \in DOMAIN hist[s].before
        /\ ATTR_NAME \in DOMAIN hist[s].before[PostId(s)]
        /\ ATTR_NAME \notin DOMAIN hist[s].body.obj
        /\ ATTR_NAME \notin DOMAIN registrations[PostId(s)]

\* C5: a POST whose body is not JSON or violates the schema is answered 400,
\* leaves the registry unchanged and makes no write.
C5_InvalidPostRejected ==
    \A s \in Slots :
        (handler[s].method = "POST" /\ InvalidPost(s))
            => /\ handler[s].pc = "done"
               /\ resp[s].status = 400
               /\ registrations = hist[s].before
               /\ hist[s].saves = 0
               /\ file = hist[s].before

\* C5 witness: a POST without a channel URL was rejected on a non-empty registry
C5_Witness ==
    \E s \in Slots :
        /\ Done(s, "POST")
        /\ hist[s].body.dict
        /\ ATTR_CHANNEL \notin DOMAIN hist[s].body.obj
        /\ ATTR_CHANNEL_ID \in DOMAIN hist[s].body.obj
        /\ resp[s].status = 400
        /\ registrations # EmptyDict

\* C6: a DELETE with an id that matches a stored registration, whose save does
\* not fail, removes the entry and answers 'unregistered', never 'not found'.
C6_DeleteFindsEveryId ==
    \A s \in Slots :
        (Done(s, "DELETE") /\ hist[s].body.dict /\ MatchedBefore(s) # {}
                /\ hist[s].saved # "failed")
            => /\ Success(s, "Push notification subscriber unregistered.")
               /\ \A k \in MatchedBefore(s) : k \notin DOMAIN registrations

\* C7: a DELETE with an id that matches no stored registration answers 200
\* 'not found', changes nothing and writes nothing; so does a DELETE that
\* follows a successful DELETE of the same id.
C7_DeleteAbsent ==
    \A s \in Slots :
        /\ (handler[s].method = "DELETE" /\ hist[s].body.dict /\ MatchedBefore(s) = {})
               => /\ handler[s].pc = "done"
                  /\ Success(s, "Registration not found.")
                  /\ registrations = hist[s].before
                  /\ hist[s].saves = 0
                  /\ file = hist[s].before
        /\ (/\ handler[s].method = "DELETE" /\ hist[s].body.dict
            /\ last.method = "DELETE" /\ last.channel_id = DeleteId(s)
            /\ last.message = "Push notification subscriber unregistered.")
               => /\ handler[s].pc = "done"
                  /\ Success(s, "Registration not found.")
                  /\ registrations = hist[s].before
                  /\ hist[s].saves = 0

\* C7 witness: the second of two DELETEs of one id, the first successful, responded
C7_Witness ==
    \E s \in Slots :
        /\ Done(s, "DELETE") /\ hist[s].body.dict
        /\ last.method = "DELETE" /\ last.channel_id = DeleteId(s)
        /\ last.message = "Push notification subscriber unregistered."
        /\ Success(s, "Registration not found.")

\* C8: with requests handled one at a time, the file equals the registry
\* whenever no request is in flight.
C8_FileEqualsRegistry ==
    (\A s \in Slots : handler[s].pc \in {"idle", "done"}) => file = registrations

\* C8 witness: after a failed save and a successful one, file and registry
\* agree and differ from what was loaded
C8_Witness ==
    /\ \A s \in Slots : handler[s].pc \in {"idle", "done"}
    /\ \E s \in Slots : hist[s].saved = "ok"
    /\ last.status = 500
    /\ file = registrations
    /\ registrations # loaded

---------------------------------------------------------------------------
(* Properties of the registration view under interleaved requests *)

Quiescent == \A s \in Slots : handler[s].pc \in {"idle", "done"}

\* the ids of the records whose POST was answered with success
AckedIds == {r[ATTR_CHANNEL_ID] : r \in acked}

\* C3: under every interleaving, once all requests have responded the registry
\* equals the file, holds no record written only by a POST that was answered
\* 500, and misses no record that only a DELETE answered 500 removed.
C3_NoFailedEffectSurvives ==
    Quiescent =>
        /\ registrations = file
        /\ \A k \in DOMAIN registrations :
              \/ registrations[k] \in acked
              \/ k \in DOMAIN loaded /\ loaded[k] = registrations[k]
        /\ \A k \in (DOMAIN loaded) \cup AckedIds :
              k \notin DOMAIN registrations => k \in unacked

---------------------------------------------------------------------------
(* Properties of the token cache *)

\* C9: get_token posts a token request iff the cached expiry is strictly
\* before now + 5 minutes; otherwise it returns at once and leaves the cached
\* token and expiry as they were.
C9_RefreshIffWithinWindow ==
    (sender.pc # "idle") =>
        /\ tokhist.requested <=> (tokhist.cached.expiry < tokhist.now + 5)
        /\ (~tokhist.requested) =>
               /\ tokhist.returned /\ tokhist.returned_at = tokhist.now
               /\ access_token = tokhist.cached
               /\ sender.pc # "token_request"
               /\ (sender.pc \in {"got_token", "fanout"} => sender.token = tokhist.cached.token)

\* C9 witness: a token expiring exactly 5 minutes from now was reused
C9_Witness ==
    /\ sender.pc = "got_token"
    /\ ~tokhist.requested
    /\ tokhist.cached.expiry = tokhist.now + 5
    /\ access_token = tokhist.cached

\* C10 as claimed: whenever get_token has returned, the cached expiry is at
\* least 5 minutes after the time of the return.
C10_ReturnedTokenOutsideWindow ==
    (sender.pc = "got_token") => access_token.expiry >= tokhist.returned_at + 5

\* C10 amended: whenever get_token has returned, the cached expiry is at least
\* 5 minutes after the time of the return, unless this call refreshed and the
\* provider's lifetime was under 5 minutes: then it is the return time plus
\* that lifetime.
C10_ReturnedTokenExpiry ==
    (sender.pc = "got_token") =>
        \/ access_token.expiry >= tokhist.returned_at + 5
        \/ /\ tokhist.requested
           /\ tokhist.expires_in < 5
           /\ access_token.expiry = tokhist.returned_at + tokhist.expires_in

\* C10 witness: get_token returned a token refreshed with a 6-minute lifetime
\* after the clock moved during the request
C10_Witness ==
    /\ sender.pc = "got_token"
    /\ tokhist.requested
    /\ tokhist.returned_at > tokhist.now
    /\ tokhist.expires_in = 6
    /\ access_token.expiry = tokhist.returned_at + 6

---------------------------------------------------------------------------
(* Properties of send_message *)

\* the explicit target list of the running call (None taken as the empty list)
GivenTargets == IF sender.targets = {} THEN <<>> ELSE CHOOSE t \in sender.targets : TRUE

\* the listed ids that are registry keys, in list order
KnownTargets(list) ==
    LET IsKey(t) == t \in DOMAIN registrations IN SelectSeq(list, IsKey)

OutboxTargets == [i \in DOMAIN outbox |-> outbox[i].target]

\* every POST went to the channel URL of the entry of its target
PostedToChannels ==
    \A i \in DOMAIN outbox :
        /\ outbox[i].target \in DOMAIN registrations
        /\ outbox[i].channel = registrations[outbox[i].target][ATTR_CHANNEL]

\* exactly one POST for every registry entry
PostedOncePerEntry ==
    /\ Len(outbox) = Cardinality(DOMAIN registrations)
    /\ \A k \in DOMAIN registrations : \E i \in DOMAIN outbox : outbox[i].target = k
    /\ PostedToChannels

\* one POST per listed id that is a key, in list order, the others logged
PostedPerListedKey ==
    /\ OutboxTargets = KnownTargets(GivenTargets)
    /\ PostedToChannels
    /\ sender.errors = Len(GivenTargets) - Len(KnownTargets(GivenTargets))

\* C11 as claimed: with targets None every entry gets exactly one POST; with
\* any explicit list there is one POST per listed id that is a key, in list
\* order, unknown ids being skipped.
C11_FanOutAsClaimed ==
    (sender.pc = "done") =>
        IF sender.targets = {} THEN PostedOncePerEntry ELSE PostedPerListedKey

\* C11 amended: the same, the explicit list being non-empty.
C11_FanOut ==
    (sender.pc = "done") =>
        /\ (sender.targets = {} => PostedOncePerEntry)
        /\ (sender.targets # {} /\ GivenTargets # <<>> => PostedPerListedKey)

\* C11 witness: a send to an unknown id followed by a known one has posted to
\* the known one only
C11_Witness ==
    /\ sender.pc = "done"
    /\ GivenTargets = <<UnknownId, "a">>
    /\ OutboxTargets = <<"a">>
    /\ sender.errors = 1

\* C12: when the token request fails, send_message raises, no notification is
\* posted, the cached token and expiry are as before, and the cache is still
\* within the refresh window, so the next send requests a token again.
C12_TokenFailureFailsSend ==
    tokhist.failed =>
        /\ sender.pc \in {"raised", "idle"}
        /\ outbox = <<>>
        /\ access_token = tokhist.cached
        /\ access_token.expiry < clock + 5

\* C12 witness: a send raised on a failed refresh of a token cached earlier,
\* with registrations to send to
C12_Witness ==
    /\ tokhist.failed
    /\ sender.pc = "raised"
    /\ access_token.token # {}
    /\ registrations # EmptyDict

\* C18: the first send requests a token, and every notification POST carries
\* a token that a successful token request returned, never the initial None.
C18_NullTokenNeverSent ==
    /\ (nsend = 1 /\ sender.pc # "idle") => tokhist.requested
    /\ \A i \in DOMAIN outbox :
          /\ outbox[i].token # {}
          /\ outbox[i].token \subseteq tokhist.issued

\* C18 witness: the second send posted with the token the first one fetched
C18_Witness ==
    /\ nsend = 2
    /\ ~tokhist.requested
    /\ Len(outbox) >= 1
    /\ outbox[1].token = tokhist.cached.token

\* C19: a send with an explicit empty target list posts once to every
\* registry entry, as a send without targets does.
C19_EmptyListFansOut ==
    (sender.pc = "done" /\ sender.targets = {<<>>}) => PostedOncePerEntry

\* C19 witness: a send with targets [] has posted to both entries
C19_Witness ==
    /\ sender.pc = "done"
    /\ sender.targets = {<<>>}
    /\ Len(outbox) = 2

---------------------------------------------------------------------------
(* Properties of the registration view, continued *)

InFlight(s) == handler[s].pc \in {"saving", "save_ok", "save_failed"}

\* the entry stored under key k: None when there is none
Entry(regs, k) == DictGet(regs, k)

\* C13: for every id X, whenever no request for X is in flight, the entry for
\* X is the loaded one or the record of a POST for X that was answered with
\* success, and it is absent only if it was never loaded or a DELETE for X was
\* answered with success or no POST for X succeeded: no request answered with
\* a server error makes the entry appear, disappear or change.
C13_OnlyAckedTransitions ==
    \A x \in Ids :
        (\A s \in Slots : InFlight(s) => handler[s].channel_id # {x})
            => \/ /\ Entry(registrations, x) # {}
                  /\ \/ Entry(registrations, x) = Entry(loaded, x)
                     \/ Entry(registrations, x) \subseteq acked
               \/ /\ Entry(registrations, x) = {}
                  /\ \/ x \in unacked
                     \/ x \notin DOMAIN loaded /\ x \notin AckedIds

\* C14: a handler has no response while its save is under way; it answers
\* 'registered' or 'unregistered' only after its own save finished
\* successfully, and 'Error saving registration.' only after its save failed.
C14_RespondsAfterSave ==
    \A s \in Slots :
        /\ InFlight(s) => resp[s] = NoResponse
        /\ handler[s].pc = "saving" => hist[s].saved = "none"
        /\ (handler[s].pc = "done" /\ resp[s].message \in
                {"Push notification subscriber registered.",
                 "Push notification subscriber unregistered."})
               => hist[s].saved = "ok" /\ hist[s].saves = 1 /\ resp[s].status = 200
        /\ (handler[s].pc = "done" /\ resp[s].message = "Error saving registration.")
               => hist[s].saved = "failed" /\ hist[s].saves = 1 /\ resp[s].status = 500

\* C14 witness: one request was answered 'registered' after its save while
\* another request's save is still under way
C14_Witness ==
    \E s, t \in Slots :
        /\ handler[s].pc = "done" /\ hist[s].saved = "ok"
        /\ Success(s, "Push notification subscriber registered.")
        /\ handler[t].pc = "saving"

\* C15: every registry entry, in memory and in the file, is stored under a
\* key equal to its embedded id, after any requests, failed saves included.
C15_KeysEqualIds ==
    KeysMatchIds(registrations) /\ KeysMatchIds(file)

\* C15 witness: a rollback has happened and the registry holds two entries
C15_Witness ==
    /\ \E s \in Slots : handler[s].pc = "done" /\ hist[s].saved = "failed"
    /\ Cardinality(DOMAIN registrations) = 2
    /\ registrations # loaded

\* C16: with keys equal to embedded ids, DELETE (scan for the id, remove the
\* found key) answers and changes the registry as a deletion by key does:
\* 'not found' and no change when the id is no key, else the key removed and
\* 'unregistered' (or the entry back and a 500 when the save failed).
C16_ScanEqualsDeleteByKey ==
    \A s \in Slots :
        (handler[s].method = "DELETE" /\ hist[s].body.dict /\ KeysMatchIds(hist[s].before))
            => LET key == DeleteId(s) \cap DOMAIN hist[s].before IN
               IF key = {}
               THEN /\ handler[s].pc = "done"
                    /\ Success(s, "Registration not found.")
                    /\ registrations = hist[s].before
               ELSE LET k == CHOOSE x \in key : TRUE IN
                    /\ InFlight(s) => registrations = DictPop(hist[s].before, k)
                    /\ handler[s].pc = "done" =>
                          IF hist[s].saved = "ok"
                          THEN /\ Success(s, "Push notification subscriber unregistered.")
                               /\ registrations = DictPop(hist[s].before, k)
                          ELSE /\ hist[s].saved = "failed"
                               /\ ServerError(s)
                               /\ registrations = hist[s].before

\* C17: a step of a request for id X changes no registry entry under another
\* key, whatever the request's outcome.
C17_OtherKeysUntouched ==
    [][\A k \in Ids \cup DOMAIN registrations \cup DOMAIN registrations' :
          Entry(registrations', k) # Entry(registrations, k)
              => \E s \in Slots : /\ handler'[s] # handler[s]
                                  /\ handler'[s].channel_id = {k}]_vars

\* C17 witness: a request was rolled back and answered 500 while an entry
\* under another key is stored as it was loaded
C17_Witness ==
    \E s \in Slots :
        /\ handler[s].pc = "done" /\ hist[s].saved = "failed" /\ ServerError(s)
        /\ \E k \in DOMAIN registrations :
              /\ handler[s].channel_id # {k}
              /\ Entry(registrations, k) = Entry(loaded, k)

=============================================================================
